---- MODULE Spec2Model ----
(***************************************************************************)
(* Model of the judex-mini scraper: the batch orchestrator and gap-repair  *)
(* loop (src/src/scraper.py), the page loader with its retry policy        *)
(* (src/src/utils/driver.py), the exporter (src/src/data/export.py), the   *)
(* process timer (src/src/utils/timing.py) and the failure behaviour of    *)
(* the field extractors (src/src/extraction/extract_*.py); and the list,   *)
(* party, counter and record assembly functions applied to a fixture page. *)
(***************************************************************************)
EXTENDS Integers, Sequences, FiniteSets, TLC

VARIABLES
    classe,       \* run_scraper argument `classe`
    overwrite,    \* run_scraper argument `overwrite`
    file,         \* the persisted output: whether it exists, and its records
    pc,           \* position of the run (see PcValues)
    attempt,      \* retry_missing_processes: iterations of its for loop begun
    sweep,        \* number of process_batch calls begun, minus one (0 = initial)
    processos,    \* process_batch argument: the list of case IDs of the sweep
    idx,          \* process_batch: position of the current ID in processos
    st,           \* state of every expected ID within the current sweep
    tries,        \* load_page_with_retry: driver.get calls issued by this call
    waits,        \* load_page_with_retry: the backoff waits slept by this call
    transients,   \* attempts of this call that failed with a transient error
    loadError,    \* the exception load_page_with_retry raised, or NoError
    driverOpen,   \* number of browser sessions currently open
    created,      \* sessions created by the current per-ID pipeline run
    item,         \* process_single_process result: NoItem or <<record>>
    timer,        \* ProcessTimer.process_times
    missing,      \* last result of check_missing_processes (as a set)
    summary,      \* timer.log_summary has run
    logged,       \* level of the log record that reported the current ID's
                  \* load, or NOTSET
    all_exported_files,  \* run_scraper: the case IDs of the exports that
                         \* returned files, in order
    call,         \* the extraction function applied to the fixture, or NoCall
    dom,          \* the fixture: what that function reads from the page
    returned,     \* what its applications returned, in order
    now           \* the clock datetime.now() reads

\* the state of a run
runVars == <<classe, overwrite, file, pc, attempt, sweep, processos, idx, st,
             tries, waits, transients, loadError, driverOpen, created, item,
             timer, missing, summary, logged, all_exported_files>>

\* the state of a function applied to a fixture page
fixVars == <<call, dom, returned, now>>

vars == <<runVars, fixVars>>

----------------------------------------------------------------------------
(* Bounds of the model *)

\* number of case IDs of the requested range
NumProcessos == 2

\* ScraperConfig.driver_max_retries_for_missing of the run (its default is 5)
driver_max_retries_for_missing == 2

(* ScraperConfig defaults *)

driver_max_retries == 5
driver_backoff_multiplier == 1
driver_backoff_min == 0
driver_backoff_max == 10

(* run_scraper arguments *)

processo_inicial == 1
processo_final == processo_inicial + NumProcessos - 1

\* range(processo_inicial, processo_final + 1)
Expected == processo_inicial .. processo_final

\* an ID outside the requested range, for records left by an earlier run
Foreign == processo_final + 1

\* no output file
Absent == [exists |-> FALSE, rows |-> <<>>]

\* a field's None
None == "None"

\* process_single_process returning None; an item is <<record>>
NoItem == <<>>
NoError == "NoError"

----------------------------------------------------------------------------
(* Case IDs.  The initial sweep iterates ints; check_missing_processes      *)
(* returns strings, so a repair sweep iterates strings.                     *)

IntId(n) == [t |-> "int", n |-> n]
StrId(n) == [t |-> "str", n |-> n]

\* str(x) for an int or a decimal string
Str(v) == [t |-> "str", n |-> v.n]

\* the number a case ID reads as (the URL and processo_name are f-strings)
Num(v) == v.n

----------------------------------------------------------------------------
(* The page one attempt sees *)

Pages == [forbidden : BOOLEAN, captcha : BOOLEAN, gateway : BOOLEAN,
          conteudo : {"timeout", "notfound", "ok"},
          descricao : {"timeout", "empty", "ok"}]

TransientErrors == {"403 Forbidden", "CAPTCHA", "502 Bad Gateway", "Timeout"}
NotFoundErrors == {"Processo nao encontrado", "descricao-procedencia nao encontrado"}
Errors == TransientErrors \cup NotFoundErrors

\* find_element_by_xpath(conteudo) followed by _check_for_errors: the
\* exception raised for the page, or NoError
CheckForErrors(p) ==
    IF p.conteudo = "timeout" THEN "Timeout"
    ELSE IF p.forbidden THEN "403 Forbidden"
    ELSE IF p.captcha THEN "CAPTCHA"
    ELSE IF p.gateway THEN "502 Bad Gateway"
    ELSE IF p.conteudo = "notfound" THEN "Processo nao encontrado"
    ELSE IF p.descricao = "timeout" THEN "Timeout"
    ELSE IF p.descricao = "empty" THEN "descricao-procedencia nao encontrado"
    ELSE NoError

\* retry=retry_if_exception_type((Exception,)): which errors are retried
RetryIf(e) == e \in Errors

\* a stop condition that allows one attempt too many
StopAfterAttemptLate(n) == n > driver_max_retries

\* stop=stop_after_attempt(config.driver_max_retries)
StopAfterAttempt(n) == n >= driver_max_retries

RECURSIVE Pow2(_)
Pow2(n) == IF n <= 0 THEN 1 ELSE 2 * Pow2(n - 1)

Min(a, b) == IF a < b THEN a ELSE b
Max(a, b) == IF a > b THEN a ELSE b

\* a wait that doubles from the first retry on and has no ceiling
WaitExponentialUnclamped(n) == driver_backoff_multiplier * Pow2(n)

\* wait=wait_exponential(multiplier, min, max) after attempt number n
WaitExponential(n) ==
    Max(Max(0, driver_backoff_min),
        Min(driver_backoff_multiplier * Pow2(n - 1), driver_backoff_max))

----------------------------------------------------------------------------
(* Field extractors.  Each takes whether its target element can be found   *)
(* on the page and yields "value", its absent value, or Raise when the     *)
(* exception of the failed lookup leaves the extractor.                    *)

Value == "value"
EmptyList == "[]"
Raise == "raise"

\* the decorator logs the failure and re-raises it
track_extraction_timing(result) == result

extract_incidente(found) ==
    track_extraction_timing(IF found THEN Value ELSE None)
extract_numero_unico(found) ==
    track_extraction_timing(IF found THEN Value ELSE None)
extract_meio(found) ==
    track_extraction_timing(IF found THEN Value ELSE None)
extract_publicidade(found) ==
    track_extraction_timing(IF found THEN Value ELSE None)
extract_badges(found) ==
    track_extraction_timing(IF found THEN Value ELSE EmptyList)
extract_assuntos(found) ==
    track_extraction_timing(IF found THEN Value ELSE EmptyList)
extract_data_protocolo(found) ==
    track_extraction_timing(IF found THEN Value ELSE Raise)
extract_orgao_origem(found) ==
    track_extraction_timing(IF found THEN Value ELSE Raise)
extract_origem(found) ==
    track_extraction_timing(IF found THEN Value ELSE None)
extract_numero_origem(found) ==
    track_extraction_timing(IF found THEN Value ELSE None)
extract_volumes(found) ==
    track_extraction_timing(IF found THEN Value ELSE Raise)
extract_folhas(found) ==
    track_extraction_timing(IF found THEN Value ELSE Raise)
extract_apensos(found) ==
    track_extraction_timing(IF found THEN Value ELSE Raise)
extract_relator(found) ==
    track_extraction_timing(IF found THEN Value ELSE None)
extract_partes(found) ==
    track_extraction_timing(IF found THEN Value ELSE EmptyList)
extract_primeiro_autor(found) ==
    track_extraction_timing(
        IF extract_partes(found) = EmptyList THEN None ELSE Value)
extract_andamentos(found) ==
    track_extraction_timing(IF found THEN Value ELSE EmptyList)
extract_deslocamentos(found) ==
    track_extraction_timing(IF found THEN Value ELSE EmptyList)
extract_peticoes(found) ==
    track_extraction_timing(IF found THEN Value ELSE Raise)
extract_recursos(found) ==
    track_extraction_timing(IF found THEN Value ELSE EmptyList)

\* the elements the extractors look up
Targets == {"incidente", "processo-rotulo", "badge", "assuntos",
            "data_protocolo", "orgao_origem", "descricao-procedencia",
            "numero_origem", "informacoes", "processo-dados",
            "resumo-partes", "processo-andamentos", "deslocamentos",
            "peticoes", "recursos"}

\* the pages extract_processo may meet, as the targets that cannot be
\* found: none, any single one, or all of them
MissingSets == {{}} \cup {{t} : t \in Targets} \cup {Targets}

\* the extractor calls of extract_processo, on a page lacking `gone`
Extracted(gone) ==
    [incidente      |-> extract_incidente("incidente" \notin gone),
     numero_unico   |-> extract_numero_unico("processo-rotulo" \notin gone),
     meio           |-> extract_meio("badge" \notin gone),
     publicidade    |-> extract_publicidade("badge" \notin gone),
     badges         |-> extract_badges("badge" \notin gone),
     assuntos       |-> extract_assuntos("assuntos" \notin gone),
     data_protocolo |-> extract_data_protocolo("data_protocolo" \notin gone),
     orgao_origem   |-> extract_orgao_origem("orgao_origem" \notin gone),
     origem         |-> extract_origem("descricao-procedencia" \notin gone),
     numero_origem  |-> extract_numero_origem("numero_origem" \notin gone),
     volumes        |-> extract_volumes("informacoes" \notin gone),
     folhas         |-> extract_folhas("informacoes" \notin gone),
     apensos        |-> extract_apensos("informacoes" \notin gone),
     relator        |-> extract_relator("processo-dados" \notin gone),
     primeiro_autor |-> extract_primeiro_autor("resumo-partes" \notin gone),
     partes         |-> extract_partes("resumo-partes" \notin gone),
     andamentos     |-> extract_andamentos("processo-andamentos" \notin gone),
     deslocamentos  |-> extract_deslocamentos("deslocamentos" \notin gone),
     peticoes       |-> extract_peticoes("peticoes" \notin gone),
     recursos       |-> extract_recursos("recursos" \notin gone)]

Fields == DOMAIN Extracted({})

\* extract_processo: whether an extractor raised, else the record
extract_processo(processo, gone) ==
    LET x == Extracted(gone) IN
    IF \E f \in Fields : x[f] = Raise
    THEN [raised |-> TRUE, rec |-> NoItem]
    ELSE [raised |-> FALSE,
          rec |-> <<[processo_id |-> processo, status |-> 200,
                     absent |-> {f \in Fields : x[f] # Value}]>>]

----------------------------------------------------------------------------
(* The persisted output.  Every enabled format is written and deleted by   *)
(* the same export_item call, so one sequence stands for the output file;  *)
(* a persisted record keeps what the run reads back.                       *)

Persisted(rec) == [processo_id |-> rec.processo_id, status |-> rec.status]

\* handle_overwrite: the file an export_item call appends to
handle_overwrite(ow, f) == IF ow THEN Absent ELSE f

\* _save_to_csv / _save_to_jsonl / _save_to_json: append, creating the file
SaveTo(f, rec) == [exists |-> TRUE, rows |-> Append(f.rows, Persisted(rec))]

\* export_item: the file after the call
export_item(rec, f, ow) == SaveTo(handle_overwrite(ow, f), rec)

\* the processo_id values of the file, as check_missing_processes reads them
ProcessedNumbers(f) == {Str(f.rows[i].processo_id) : i \in 1..Len(f.rows)}

\* set(str(i) for i in range(processo_inicial, processo_final + 1))
ExpectedNumbers == {Str(IntId(i)) : i \in Expected}

\* a gap check that takes a missing output file for an empty one
check_missing_processes_no_file_is_empty(f) ==
    ExpectedNumbers \ ProcessedNumbers(f)

\* check_missing_processes, as the set its list holds
check_missing_processes(f) ==
    IF ~f.exists THEN {} ELSE ExpectedNumbers \ ProcessedNumbers(f)

\* list(set): the orders the returned list may have
Orders(S) ==
    {s \in [1..Cardinality(S) -> S] :
        \A i, j \in 1..Cardinality(S) : s[i] = s[j] => i = j}

----------------------------------------------------------------------------
(* The run *)

PcValues == {"main", "invalid", "next", "load", "loaderr", "found", "item",
             "summary", "done", "aborted", "call", "returned"}

StValues == {"Idle", "Pending", "Loading", "Found", "NotFound", "LoadFailed",
             "Extracting", "Exported", "Skipped"}

Terminal == {"Exported", "Skipped"}

\* the current case ID of process_batch
Processo == processos[idx]

\* the output a run may find: none, or the records of an earlier run, which
\* may repeat an ID or hold an ID outside the range
PriorFiles ==
    {Absent,
     [exists |-> TRUE,
      rows |-> <<[processo_id |-> IntId(Foreign), status |-> 200]>>],
     [exists |-> TRUE,
      rows |-> <<[processo_id |-> IntId(processo_final), status |-> 200],
                 [processo_id |-> IntId(processo_final), status |-> 200]>>]}

\* the values given as case class: a code of the taxonomy, an unknown code,
\* and a known code in the wrong case
Classes == {"RE", "XX", "re"}

\* no function is applied to a fixture during a run
NoCall == "NoCall"
NoFixture ==
    /\ call = NoCall
    /\ dom = <<>>
    /\ returned = <<>>
    /\ now = 0

\* the command line is read; run_scraper up to its call of process_batch
Init ==
    /\ classe \in Classes
    /\ overwrite \in BOOLEAN
    /\ file \in PriorFiles
    /\ pc = "main"
    /\ all_exported_files = <<>>
    /\ logged = "NOTSET"
    /\ NoFixture
    /\ attempt = 0
    /\ sweep = 0
    /\ processos = [i \in 1..NumProcessos |-> IntId(processo_inicial + i - 1)]
    /\ idx = 0
    /\ st = [n \in Expected |-> "Pending"]
    /\ tries = 0
    /\ waits = <<>>
    /\ transients = 0
    /\ loadError = NoError
    /\ driverOpen = 0
    /\ created = 0
    /\ item = NoItem
    /\ timer = <<>>
    /\ missing = {}
    /\ summary = FALSE

\* get_driver, entering the with block: setup_driver
DriverSetup(open) == open + 1

\* an exit of the with block that leaves the session running
DriverLeft(open) == open

\* get_driver, leaving the with block on any path: driver.quit()
DriverQuit(open) == open - 1

\* a retry attempt that opens a session of its own
AttemptSessionsFresh(n) == n + 1

\* sessions a retry attempt adds: _retry_operation reuses the driver it got
AttemptSessions(n) == n

\* the fixed taxonomy of case-class codes
STF_CASE_TYPES ==
    {"AC", "ACO", "ADC", "ADI", "ADO", "ADPF", "AI", "AImp", "AO", "AOE",
     "AP", "AR", "ARE", "AS", "CC", "Cm", "EI", "EL", "EP", "Ext", "HC", "HD",
     "IF", "Inq", "MI", "MS", "PADM", "Pet", "PPE", "PSV", "RC", "Rcl", "RE",
     "RHC", "RHD", "RMI", "RMS", "RvC", "SE", "SIRDR", "SL", "SS", "STA",
     "STP", "TPA"}

\* a validation that lets every code pass
validate_any_case_type(case_type) == TRUE

\* validate_stf_case_type: TRUE when it returns, FALSE when it raises
\* ValueError
validate_stf_case_type(case_type) == case_type \in STF_CASE_TYPES

\* the entry point: the case class is validated against the taxonomy before
\* run_scraper is called; an invalid code ends the program there
Main ==
    /\ pc = "main"
    /\ pc' = IF validate_stf_case_type(classe) THEN "next" ELSE "invalid"
    /\ UNCHANGED <<classe, overwrite, file, attempt, sweep, processos, idx,
                   st, tries, waits, transients, loadError, driverOpen,
                   created, item, timer, missing, summary,
                   all_exported_files>>
    /\ UNCHANGED <<logged, fixVars>>
\* the logging levels of the records about one ID's load
LogLevels == {"NOTSET", "INFO", "WARNING", "ERROR"}

\* load_page_with_retry: logging.info(f"{process_name}: loaded")
LoadedLevel == "INFO"

\* process_single_process, except branch: logging.error for every exception
LoadErrorLevel(e) == "ERROR"

\* process_batch: the loop takes the next ID; process_single_process opens
\* the session and calls load_page_with_retry
StartProcess ==
    /\ pc = "next"
    /\ idx < Len(processos)
    /\ idx' = idx + 1
    /\ st' = [st EXCEPT ![Num(processos[idx + 1])] = "Loading"]
    /\ driverOpen' = DriverSetup(driverOpen)
    /\ created' = 1
    /\ tries' = 0
    /\ waits' = <<>>
    /\ transients' = 0
    /\ loadError' = NoError
    /\ item' = NoItem
    /\ pc' = "load"
    /\ UNCHANGED <<overwrite, file, attempt, sweep, processos, timer, missing,
                   summary>>
    /\ logged' = "NOTSET"
    /\ UNCHANGED <<classe, all_exported_files, fixVars>>

\* load_page_with_retry: one call of _retry_operation and what tenacity does
\* with its outcome
Attempt ==
    /\ pc = "load"
    /\ \E e \in {CheckForErrors(p) : p \in Pages} :
        LET n == tries + 1
        IN  /\ tries' = n
            /\ created' = AttemptSessions(created)
            /\ driverOpen' = driverOpen + (created' - created)
            /\ transients' = transients + IF e \in TransientErrors THEN 1 ELSE 0
            /\ IF e = NoError
               THEN /\ pc' = "found"
                    /\ st' = [st EXCEPT ![Num(Processo)] = "Found"]
                    /\ logged' = LoadedLevel
                    /\ UNCHANGED <<waits, loadError>>
               ELSE IF RetryIf(e) /\ ~StopAfterAttempt(n)
               THEN /\ waits' = Append(waits, WaitExponential(n))
                    /\ UNCHANGED <<pc, st, loadError, logged>>
               ELSE /\ loadError' = e
                    /\ pc' = "loaderr"
                    /\ st' = [st EXCEPT ![Num(Processo)] =
                                IF e \in NotFoundErrors THEN "NotFound"
                                ELSE "LoadFailed"]
                    /\ UNCHANGED <<waits, logged>>
    /\ UNCHANGED <<overwrite, file, attempt, sweep, processos, idx, item,
                   timer, missing, summary>>
    /\ UNCHANGED <<classe, all_exported_files, fixVars>>

\* an except branch that lets the load error leave process_batch
LoadErrorRaised == "aborted"

\* process_single_process: what the except branch leaves as the position
LoadErrorHandled == "item"

\* an except branch that returns a record for the ID that did not load
ReturnStubOnLoadError(processo) ==
    <<[processo_id |-> processo, status |-> 404, absent |-> Fields]>>

\* process_single_process, except branch: return None
ReturnOnLoadError(processo) == NoItem

\* the state of a load_page_with_retry call that is over
LoadCallOver ==
    /\ tries' = 0
    /\ waits' = <<>>
    /\ transients' = 0
    /\ loadError' = NoError

\* process_single_process, except branch: log the error, return None; the
\* with block quits the session
HandleLoadError ==
    /\ pc = "loaderr"
    /\ item' = ReturnOnLoadError(Processo)
    /\ driverOpen' = DriverQuit(driverOpen)
    /\ pc' = LoadErrorHandled
    /\ LoadCallOver
    /\ logged' = LoadErrorLevel(loadError)
    /\ UNCHANGED <<overwrite, file, attempt, sweep, processos, idx, st,
                   created, timer, missing, summary>>
    /\ UNCHANGED <<classe, all_exported_files, fixVars>>

\* process_single_process after a load: extract_processo; the with block
\* quits the session whether it returns or raises, and an exception leaves
\* process_batch and run_scraper
ExtractProcesso ==
    /\ pc = "found"
    /\ \E gone \in MissingSets :
        LET rec == extract_processo(Processo, gone)
        IN  /\ st' = [st EXCEPT ![Num(Processo)] = "Extracting"]
            /\ driverOpen' = DriverQuit(driverOpen)
            /\ IF rec.raised
               THEN /\ pc' = "aborted"
                    /\ UNCHANGED item
               ELSE /\ pc' = "item"
                    /\ item' = rec.rec
    /\ LoadCallOver
    /\ UNCHANGED <<overwrite, file, attempt, sweep, processos, idx, created,
                   timer, missing, summary>>
    /\ UNCHANGED <<classe, logged, all_exported_files, fixVars>>

\* export_item's return value, or [] when there is no item: the files
\* written, named here by the case ID; every output configuration enables a
\* format, so an exported item names a file
ExportedFiles(i) == IF i # NoItem THEN <<Num(i[1].processo_id)>> ELSE <<>>

\* end_process called without its success argument, which defaults to True
SuccessDefault(exported_files) == TRUE

\* process_batch: success = len(exported_files) > 0
Success(exported_files) == Len(exported_files) > 0

\* a timer that records only the runs that succeeded
end_process_if_success(process_times, processo, success) ==
    IF success
    THEN Append(process_times, [processo |-> processo, success |-> success])
    ELSE process_times

\* ProcessTimer.end_process: process_times after the call
end_process(process_times, processo, success) ==
    Append(process_times, [processo |-> processo, success |-> success])

\* process_batch with the result of process_single_process: export_item for
\* an item, then timer.end_process; the item is not used again
EndProcess ==
    /\ pc = "item"
    /\ file' = IF item # NoItem THEN export_item(item[1], file, overwrite)
                ELSE file
    /\ timer' = end_process(timer, Num(Processo),
                            Success(ExportedFiles(item)))
    /\ st' = [st EXCEPT ![Num(Processo)] =
                IF item # NoItem THEN "Exported" ELSE "Skipped"]
    /\ all_exported_files' = all_exported_files \o ExportedFiles(item)
    /\ item' = NoItem
    /\ pc' = "next"
    /\ UNCHANGED <<overwrite, attempt, sweep, processos, idx, tries, waits,
                   transients, loadError, driverOpen, created, missing,
                   summary>>
    /\ UNCHANGED <<classe, logged, fixVars>>

\* a loop that runs one round too many
RetryRangeLong(a) == a <= driver_max_retries_for_missing

\* for attempt in range(config.driver_max_retries_for_missing)
RetryRange(a) == a < driver_max_retries_for_missing

\* retry_missing_processes, one iteration: check_missing_processes, break on
\* an empty result, else process_batch on the missing IDs
CheckMissing ==
    /\ pc = "next"
    /\ idx = Len(processos)
    /\ RetryRange(attempt)
    /\ attempt' = attempt + 1
    /\ missing' = check_missing_processes(file)
    /\ IF missing' = {}
       THEN /\ pc' = "summary"
            /\ UNCHANGED <<sweep, processos, idx, st>>
       ELSE /\ \E order \in Orders(missing') : processos' = order
            /\ idx' = 0
            /\ sweep' = sweep + 1
            /\ st' = [n \in Expected |->
                        IF StrId(n) \in missing' THEN "Pending" ELSE "Idle"]
            /\ pc' = "next"
    /\ UNCHANGED <<overwrite, file, tries, waits, transients, loadError,
                   driverOpen, created, item, timer, summary>>
    /\ UNCHANGED <<classe, logged, all_exported_files, fixVars>>

\* retry_missing_processes: the for loop is exhausted
RetriesExhausted ==
    /\ pc = "next"
    /\ idx = Len(processos)
    /\ ~RetryRange(attempt)
    /\ pc' = "summary"
    /\ UNCHANGED <<overwrite, file, attempt, sweep, processos, idx, st, tries,
                   waits, transients, loadError, driverOpen, created, item,
                   timer, missing, summary>>
    /\ UNCHANGED <<classe, logged, all_exported_files, fixVars>>

\* run_scraper: timer.log_summary and the list of exported files
LogSummary ==
    /\ pc = "summary"
    /\ summary' = TRUE
    /\ pc' = "done"
    /\ UNCHANGED <<overwrite, file, attempt, sweep, processos, idx, st, tries,
                   waits, transients, loadError, driverOpen, created, item,
                   timer, missing>>
    /\ UNCHANGED <<classe, logged, all_exported_files, fixVars>>

Next ==
    \/ Main
    \/ StartProcess
    \/ Attempt
    \/ HandleLoadError
    \/ ExtractProcesso
    \/ EndProcess
    \/ CheckMissing
    \/ RetriesExhausted
    \/ LogSummary

Spec == Init /\ [][Next]_vars

\* the interpreter runs the next statement of run_scraper as long as there
\* is one
FairSpec == Spec /\ WF_vars(Next)

TypeOK ==
    /\ logged \in LogLevels
    /\ pc \in PcValues
    /\ \A n \in Expected : st[n] \in StValues
    /\ tries \in 0..driver_max_retries
    /\ attempt \in 0..driver_max_retries_for_missing

----------------------------------------------------------------------------
(* Extraction functions applied to a fixture page.  A list extractor reads *)
(* a container and its rendered items; an item extracts or fails.          *)

\* rendered items of a list, or badges of a page, at most
MaxItems == 3

\* nodes of the parties container, at most
MaxNodes == 4

\* characters of a counter's display, at most
MaxLen == 2

\* applications of extract_processo to the same page
Applications == 2

\* the sequences over S of length at most n
SeqUpTo(S, n) == UNION {[1..k -> S] : k \in 0..n}

\* a list fixture: whether the container is found, and for every rendered
\* item whether its fields can be read
ListFixtures == [found : BOOLEAN, items : SeqUpTo(BOOLEAN, MaxItems)]

\* an index counted from the top of the page
IndexNumAscending(total, i) == i + 1

\* index = len(andamentos) - i; index = total_deslocamentos - i
IndexNum(total, i) == total - i

\* extract_andamentos, the for loop from item i on: an item that extracts is
\* appended with its index_num, `item` being the rendered item (0-based)
\* its data, nome and complemento were read from; one that fails is left out
RECURSIVE AndamentosLoop(_, _, _)
AndamentosLoop(andamentos, i, list) ==
    IF i >= Len(andamentos) THEN list
    ELSE AndamentosLoop(andamentos, i + 1,
            IF andamentos[i + 1]
            THEN Append(list, [index_num |-> IndexNum(Len(andamentos), i),
                               item |-> i])
            ELSE list)

\* extract_andamentos on a fixture: [] when the container is not found
andamentos_list(d) ==
    IF d.found THEN AndamentosLoop(d.items, 0, <<>>) ELSE <<>>

\* _extract_single_deslocamento: <<entry>>, or <<>> for its None
extract_single_deslocamento(ok, index, i) ==
    IF ok THEN <<[index_num |-> index, item |-> i]>> ELSE <<>>

\* extract_deslocamentos, the for loop from item i on
RECURSIVE DeslocamentosLoop(_, _, _)
DeslocamentosLoop(deslocamentos, i, list) ==
    IF i >= Len(deslocamentos) THEN list
    ELSE LET deslocamento_data ==
                extract_single_deslocamento(deslocamentos[i + 1],
                    IndexNum(Len(deslocamentos), i), i)
         IN  DeslocamentosLoop(deslocamentos, i + 1, list \o deslocamento_data)

\* extract_deslocamentos on a fixture: [] when the container is not found
deslocamentos_list(d) ==
    IF d.found THEN DeslocamentosLoop(d.items, 0, <<>>) ELSE <<>>

----------------------------------------------------------------------------
(* Parties *)

\* the texts a node of the parties container may hold
Texts == {"", "  ", "RECTE", " JOAO  SILVA "}

\* get_text(strip=True) followed by normalize_spaces: runs of whitespace
\* become one space, and the ends are stripped
normalize_spaces(text) ==
    CASE text = "  " -> ""
      [] text = " JOAO  SILVA " -> "JOAO SILVA"
      [] OTHER -> text

\* a loop that moves on by one node
NextPairOverlap(i) == i + 1

\* range(0, len(elementos), 2): the position after i
NextPair(i) == i + 2

\* an index that counts the pairs of the page, skipped ones included
ParteIndexOnPage(partes, i) == (i \div 2) + 1

\* "index": len(partes) + 1
ParteIndex(partes, i) == Len(partes) + 1

\* _extract_partes_from_soup, the for loop from position i on
RECURSIVE PartesLoop(_, _, _)
PartesLoop(elementos, i, partes) ==
    IF i >= Len(elementos) THEN partes
    ELSE IF i + 1 >= Len(elementos) THEN partes
    ELSE LET tipo_text == normalize_spaces(elementos[i + 1])
             nome_text == normalize_spaces(elementos[i + 2])
         IN  PartesLoop(elementos, NextPair(i),
                IF tipo_text = "" \/ nome_text = "" THEN partes
                ELSE Append(partes, [index |-> ParteIndex(partes, i),
                                     tipo |-> tipo_text,
                                     nome |-> nome_text]))

extract_partes_from_soup(elementos) == PartesLoop(elementos, 0, <<>>)

\* a parties fixture: whether #resumo-partes is found, and the texts of its
\* processo-partes nodes in page order
PartesFixtures == [found : BOOLEAN, nodes : SeqUpTo(Texts, MaxNodes)]

\* extract_partes on a fixture: [] when the section is not found
partes_list(d) ==
    IF d.found THEN extract_partes_from_soup(d.nodes) ELSE <<>>

----------------------------------------------------------------------------
(* Counters: volumes, folhas, apensos *)

Digits == {"0", "7"}

\* the characters a counter's display is made of
Chars == Digits \cup {"x", " "}

\* a matched box: whether it has a .numero element, and that element's text
Boxes == [numero : BOOLEAN, text : SeqUpTo(Chars, MaxLen)]

\* get_text(strip=True): the text without leading and trailing whitespace
RECURSIVE Strip(_)
Strip(s) ==
    IF s = <<>> THEN s
    ELSE IF Head(s) = " " THEN Strip(Tail(s))
    ELSE IF s[Len(s)] = " " THEN Strip(SubSeq(s, 1, Len(s) - 1))
    ELSE s

\* str.isdigit()
IsDigit(s) == s # <<>> /\ \A i \in 1..Len(s) : s[i] \in Digits

\* int() of a string of digits
RECURSIVE ToInt(_)
ToInt(s) ==
    IF s = <<>> THEN 0
    ELSE 10 * ToInt(SubSeq(s, 1, Len(s) - 1))
            + (IF s[Len(s)] = "7" THEN 7 ELSE 0)

\* the values a counter takes: an int, a str, or None
IntValue(n) == [t |-> "int", n |-> n, s |-> <<>>]
StrValue(s) == [t |-> "str", n |-> 0, s |-> s]
NoneValue == [t |-> "None", n |-> 0, s |-> <<>>]

\* _extract_value_from_box
extract_value_from_box(box) ==
    IF ~box.numero THEN NoneValue
    ELSE LET value == Strip(box.text)
         IN  IF IsDigit(value) THEN IntValue(ToInt(value))
             ELSE IF value = <<>> \/ Strip(value) = <<>> THEN NoneValue
             ELSE StrValue(value)

\* the extractors of the three counters
Counters == {"volumes", "folhas", "apensos"}

----------------------------------------------------------------------------
(* The fields of one transfer (deslocamento).  A text is the sequence of    *)
(* its words, read joined by single spaces; in a raw text Spc stands for    *)
(* more whitespace (a longer run, or whitespace at an end).  "" is <<>>.    *)
(* A field is StrValue(text) or NoneValue.                                  *)

Spc == " "

\* the dates dd/mm/yyyy of the fixtures: one for labels, one for date spans
LabelDate == "01/02/2020"
SpanDate == "03/04/2021"

\* \d{2}/\d{2}/\d{4}
IsDate(w) == w \in {LabelDate, SpanDate}

\* normalize_spaces on a text given by its words:
\* re.sub(r"\s+", " ", text).strip()
NormalizeSpaces(s) == SelectSeq(s, LAMBDA w : w # Spc)

\* str.replace(phrase + " ", ""): every occurrence of the words of `phrase`
\* that is followed by a space, and so by one more word, is removed
RECURSIVE Replace(_, _)
Replace(s, phrase) ==
    IF s = <<>> THEN s
    ELSE IF Len(s) > Len(phrase) /\ SubSeq(s, 1, Len(phrase)) = phrase
    THEN Replace(SubSeq(s, Len(phrase) + 1, Len(s)), phrase)
    ELSE <<Head(s)>> \o Replace(Tail(s), phrase)

\* str.replace(" em ", "") from left to right: a word "em" between two
\* words goes away with both spaces, which joins its neighbours
RECURSIVE ReplaceEm(_, _)
ReplaceEm(done, rest) ==
    IF Len(rest) < 2 THEN done \o rest
    ELSE IF rest[1] = "em"
    THEN ReplaceEm(SubSeq(done, 1, Len(done) - 1)
                        \o <<done[Len(done)] \o rest[2]>>,
                   SubSeq(rest, 3, Len(rest)))
    ELSE ReplaceEm(Append(done, rest[1]), Tail(rest))

ReplaceInnerEm(s) == IF s = <<>> THEN s ELSE ReplaceEm(<<Head(s)>>, Tail(s))

\* one lista-dados item: the texts of its spans, NoneValue for a span that
\* is missing or empty.  In page order: processo-detalhes-bold and
\* processo-detalhes in the left column, then in the text-right column a
\* processo-detalhes span (the guia) and the date spans.
LabelTexts(prefix) ==
    {<<Spc>>, <<"SECAO">>, <<prefix, "por", "SECAO">>,
     <<prefix, "por", Spc, "SECAO", "em", LabelDate>>,
     <<"SECAO", "em", LabelDate>>, <<prefix, "por", "em", LabelDate>>}

DateTexts(prefix) == {<<Spc>>, <<prefix, "em", SpanDate>>, <<SpanDate, Spc>>}

GuiaTexts == {<<Spc>>, <<"Guia">>, <<"Guia", "123/2020">>}

Span(texts) == {NoneValue} \cup {StrValue(s) : s \in texts}

DeslocamentoFixtures ==
    [bold : Span(LabelTexts("Recebido")),
     detalhes : Span(LabelTexts("Enviado")),
     guia : Span(GuiaTexts),
     success : Span(DateTexts("Recebido")),
     info : Span(DateTexts("Enviado"))]

\* _extract_data_from_html: re.search finds the first match on the page, and
\* ([^<]+) does not match an empty span; "processo-detalhes"> also opens the
\* guia span, which comes after the left column
extract_data_from_html(html) ==
    [enviado_match |-> html.bold,
     data_recebido_match |-> html.success,
     recebido_match |-> IF html.detalhes # NoneValue THEN html.detalhes
                        ELSE html.guia,
     data_enviado_match |-> html.info,
     guia_match |-> html.guia]

\* normalize_spaces(x).replace(first + " em ", "").replace(" em ", "").strip()
CleanDate(x, first) ==
    StrValue(ReplaceInnerEm(Replace(NormalizeSpaces(x.s), <<first, "em">>)))

\* _clean_data_fields ("N." stands for the word written N with a raised o)
clean_data_fields(matches) ==
    [data_recebido |->
        IF matches.data_recebido_match # NoneValue
        THEN CleanDate(matches.data_recebido_match, "Recebido")
        ELSE NoneValue,
     data_enviado |->
        IF matches.data_enviado_match # NoneValue
        THEN CleanDate(matches.data_enviado_match, "Enviado")
        ELSE NoneValue,
     guia |->
        IF matches.guia_match # NoneValue
        THEN StrValue(Replace(Replace(Replace(
                NormalizeSpaces(matches.guia_match.s),
                <<"Guia:">>), <<"Guia">>), <<"N.">>))
        ELSE NoneValue,
     enviado_raw |-> matches.recebido_match,
     recebido_raw |-> matches.enviado_match]

\* re.search(r"em (\d{2}/\d{2}/\d{4})", s): the first date after an "em",
\* as <<date>>, or <<>> when there is no match
RECURSIVE SearchEmDate(_)
SearchEmDate(s) ==
    IF Len(s) < 2 THEN <<>>
    ELSE IF s[1] = "em" /\ IsDate(s[2]) THEN <<s[2]>>
    ELSE SearchEmDate(Tail(s))

\* re.sub(r"^Enviado por ", "", s), re.sub(r"^Recebido por ", "", s)
SubPrefix(s, first) ==
    IF Len(s) > 2 /\ s[1] = first /\ s[2] = "por"
    THEN SubSeq(s, 3, Len(s)) ELSE s

\* re.sub(r" em \d{2}/\d{2}/\d{4}$", "", s)
SubDateSuffix(s) ==
    IF Len(s) > 2 /\ s[Len(s) - 1] = "em" /\ IsDate(s[Len(s)])
    THEN SubSeq(s, 1, Len(s) - 2) ELSE s

\* `if date_match and data_enviado is None: data_enviado = date_match.group(1)`
DateFallback(date_match, data) ==
    IF date_match # <<>> /\ data = NoneValue THEN StrValue(date_match)
    ELSE data

\* _extract_person_data, one of its two halves: the person and the date
PersonData(raw, data, first) ==
    IF raw = NoneValue THEN [por |-> raw, data |-> data]
    ELSE LET clean == NormalizeSpaces(raw.s)
         IN  [por |-> StrValue(SubDateSuffix(SubPrefix(clean, first))),
              data |-> DateFallback(SearchEmDate(clean), data)]

\* _extract_person_data
extract_person_data(enviado_raw, recebido_raw, data_enviado, data_recebido) ==
    LET enviado == PersonData(enviado_raw, data_enviado, "Enviado")
        recebido == PersonData(recebido_raw, data_recebido, "Recebido")
    IN  [enviado_por |-> enviado.por,
         recebido_por |-> recebido.por,
         data_enviado |-> enviado.data,
         data_recebido |-> recebido.data]

\* _extract_single_deslocamento on an item whose innerHTML was read: the
\* entry of the list
deslocamento_data(html, index) ==
    LET cleaned_data == clean_data_fields(extract_data_from_html(html))
        person_data == extract_person_data(cleaned_data.enviado_raw,
                                           cleaned_data.recebido_raw,
                                           cleaned_data.data_enviado,
                                           cleaned_data.data_recebido)
    IN  [index_num |-> index,
         guia |-> cleaned_data.guia,
         recebido_por |-> person_data.recebido_por,
         data_recebido |-> person_data.data_recebido,
         enviado_por |-> person_data.enviado_por,
         data_enviado |-> person_data.data_enviado]

----------------------------------------------------------------------------
(* The fields of one andamento, and origem.  WebElement.text is the         *)
(* rendered text of the element: its words, "" for an empty element.        *)

\* str.upper() of a word; an accent is written after its letter
Upper(w) ==
    CASE w = "ver" -> "VER"
      [] w = "decisao" -> "DECISAO"
      [] w = "Sigiloso" -> "SIGILOSO"
      [] w = "Pu'blico" -> "PU'BLICO"
      [] w = "Publico" -> "PUBLICO"
      [] w = "Fi'sico" -> "FI'SICO"
      [] w = "Eletro^nico" -> "ELETRO^NICO"
      [] w = "Convertido" -> "CONVERTIDO"
      [] w = "Processo" -> "PROCESSO"
      [] OTHER -> w

UpperAll(s) == [i \in 1..Len(s) |-> Upper(s[i])]

\* the rendered text of an element that was found
ElementTexts == {<<>>, <<"decisao">>}

\* an andamento-item: the texts of andamento-data, andamento-nome and
\* col-md-9, which are found; andamento-julgador and the text of the first
\* anchor, NoneValue when there is no such element; the anchor's href
AndamentoFixtures ==
    [data : {<<>>, <<LabelDate>>},
     nome : {<<"decisao">>},
     complemento : ElementTexts,
     julgador : Span(ElementTexts),
     anchor : Span({<<>>, <<"ver">>}),
     href : {"", "http://x", "verPeca.asp"}]

\* the loop body of extract_andamentos for an item whose elements are found
\* (the names of the fixtures carry no ", GUIA N..." tail for re.sub to cut)
andamento_data(andamento, index) ==
    LET nome == NormalizeSpaces(andamento.nome)
        complemento == NormalizeSpaces(andamento.complemento)
        a == andamento.anchor
    IN  [index_num |-> index,
         data |-> StrValue(andamento.data),
         nome |-> StrValue(UpperAll(nome)),
         complemento |-> IF complemento = <<>> THEN NoneValue
                         ELSE StrValue(complemento),
         julgador |-> andamento.julgador,
         link_descricao |->
            IF a # NoneValue /\ a.s # <<>> /\ NormalizeSpaces(a.s) # <<>>
            THEN StrValue(UpperAll(NormalizeSpaces(a.s))) ELSE NoneValue,
         link |->
            IF a = NoneValue \/ andamento.href = "" THEN NoneValue
            ELSE IF andamento.href = "http://x" THEN StrValue(<<"http://x">>)
            ELSE StrValue(<<"https://portal.stf.jus.br/processos/"
                                \o andamento.href>>)]

\* the descricao-procedencia element: NoneValue when find_element raises,
\* else its text
OrigemFixtures == Span({<<>>, <<"SP", Spc, "-", "SAO", "PAULO">>})

\* extract_origem
extract_origem_text(element) ==
    IF element = NoneValue THEN NoneValue
    ELSE StrValue(NormalizeSpaces(element.s))

----------------------------------------------------------------------------
(* Classification from the badges.  A badge is the text of a .badge        *)
(* element, given by its words; an accent is written after its letter.     *)

\* the texts of the badges of a page
BadgeTexts ==
    {<<"Fi'sico">>, <<"Processo", "Eletro^nico">>, <<"Sigiloso">>,
     <<"Pu'blico">>, <<"PUBLICO">>, <<"Convertido">>}

\* the badges of a page, in page order
BadgeFixtures == SeqUpTo(BadgeTexts, MaxItems)

\* `word in badge`
Contains(badge, word) == \E i \in 1..Len(badge) : badge[i] = word

\* the literal extract_publicidade looks for besides "PUBLICO": the letters
\* P, U+00C3, U+0161, BLICO, which is not the upper case of "Pu'blico"
PublicoLiteral == "PA~S^BLICO"

\* extract_meio, the for loop from badge i on
RECURSIVE MeioLoop(_, _)
MeioLoop(badges, i) ==
    IF i > Len(badges) THEN None
    ELSE IF Contains(badges[i], "Fi'sico") THEN "FISICO"
    ELSE IF Contains(badges[i], "Eletro^nico") THEN "ELETRONICO"
    ELSE MeioLoop(badges, i + 1)

\* extract_meio
extract_meio_badges(badges) == MeioLoop(badges, 1)

\* extract_publicidade
extract_publicidade_badges(page) ==
    LET badges == [i \in 1..Len(page) |-> UpperAll(page[i])]
    IN  IF \E i \in 1..Len(badges) : Contains(badges[i], "SIGILOSO")
        THEN "SIGILOSO"
        ELSE IF \E i \in 1..Len(badges) :
                    \/ Contains(badges[i], PublicoLiteral)
                    \/ Contains(badges[i], "PUBLICO")
        THEN "PUBLICO"
        ELSE None

----------------------------------------------------------------------------
(* Assembly of a record from a fixture page *)

\* a page fixture: the case ID and the targets the page lacks
PageFixtures == [processo : {IntId(n) : n \in Expected}, gone : MissingSets]

\* an assembly after which the page has lost its andamentos container
SessionChanged(d) ==
    [d EXCEPT !.gone = d.gone \cup {"processo-andamentos"}]

\* the page after extract_processo: its extractors only read the session
\* (find_element, get_attribute, page_source)
SessionAfter(d) == d

\* the result of one extract_processo call at clock t: whether an extractor
\* raised, else the record with classe and extraido
StfItem(d, c, t) ==
    LET x == extract_processo(d.processo, d.gone)
    IN  [raised |-> x.raised, rec |-> x.rec, classe |-> c,
         extraido |-> IF x.raised THEN 0 ELSE t]

----------------------------------------------------------------------------
(* The functions applied to a fixture *)

\* no run is going on: the session holds the fixture page
NoRun ==
    /\ classe = "RE"
    /\ overwrite = FALSE
    /\ file = Absent
    /\ pc = "call"
    /\ attempt = 0
    /\ sweep = 0
    /\ processos = <<>>
    /\ idx = 0
    /\ st = [n \in Expected |-> "Idle"]
    /\ tries = 0
    /\ waits = <<>>
    /\ transients = 0
    /\ loadError = NoError
    /\ driverOpen = 1
    /\ created = 1
    /\ item = NoItem
    /\ timer = <<>>
    /\ missing = {}
    /\ summary = FALSE
    /\ all_exported_files = <<>>
    /\ logged = "NOTSET"

InitExtract ==
    /\ NoRun
    /\ \/ call \in {"andamentos", "deslocamentos"} /\ dom \in ListFixtures
       \/ call = "partes" /\ dom \in PartesFixtures
       \/ call \in Counters /\ dom \in Boxes
       \/ call = "deslocamento" /\ dom \in DeslocamentoFixtures
       \/ call = "andamento" /\ dom \in AndamentoFixtures
       \/ call = "origem" /\ dom \in OrigemFixtures
       \/ call \in {"meio", "publicidade"} /\ dom \in BadgeFixtures
       \/ call = "processo" /\ dom \in PageFixtures
    /\ returned = <<>>
    /\ now = 0

\* the function returns its value
Return(value) ==
    /\ returned' = <<value>>
    /\ pc' = "returned"
    /\ UNCHANGED <<classe, overwrite, file, attempt, sweep, processos, idx, st,
                   tries, waits, transients, loadError, driverOpen, created,
                   item, timer, missing, summary, logged, all_exported_files>>
    /\ UNCHANGED <<call, dom, now>>

CallAndamentos ==
    /\ pc = "call" /\ call = "andamentos"
    /\ Return(andamentos_list(dom))

CallDeslocamentos ==
    /\ pc = "call" /\ call = "deslocamentos"
    /\ Return(deslocamentos_list(dom))

CallPartes ==
    /\ pc = "call" /\ call = "partes"
    /\ Return(partes_list(dom))

\* extract_volumes, extract_folhas, extract_apensos on their matched box
CallCounter ==
    /\ pc = "call" /\ call \in Counters
    /\ Return(extract_value_from_box(dom))

\* _extract_single_deslocamento on the only item of the list
CallSingleDeslocamento ==
    /\ pc = "call" /\ call = "deslocamento"
    /\ Return(deslocamento_data(dom, IndexNum(1, 0)))

\* extract_andamentos, its loop body on the only item of the list
CallAndamento ==
    /\ pc = "call" /\ call = "andamento"
    /\ Return(andamento_data(dom, IndexNum(1, 0)))

CallOrigem ==
    /\ pc = "call" /\ call = "origem"
    /\ Return(extract_origem_text(dom))

CallMeio ==
    /\ pc = "call" /\ call = "meio"
    /\ Return(extract_meio_badges(dom))

CallPublicidade ==
    /\ pc = "call" /\ call = "publicidade"
    /\ Return(extract_publicidade_badges(dom))

\* extract_processo applied to the page once more; the clock may have moved
CallExtractProcesso ==
    /\ pc = "call" /\ call = "processo"
    /\ returned' = Append(returned, StfItem(dom, classe, now))
    /\ dom' = SessionAfter(dom)
    /\ now' \in {now, now + 1}
    /\ pc' = IF Len(returned') = Applications THEN "returned" ELSE "call"
    /\ UNCHANGED <<classe, overwrite, file, attempt, sweep, processos, idx, st,
                   tries, waits, transients, loadError, driverOpen, created,
                   item, timer, missing, summary, logged, all_exported_files>>
    /\ UNCHANGED call

NextExtract ==
    \/ CallAndamentos
    \/ CallDeslocamentos
    \/ CallPartes
    \/ CallCounter
    \/ CallSingleDeslocamento
    \/ CallAndamento
    \/ CallOrigem
    \/ CallMeio
    \/ CallPublicidade
    \/ CallExtractProcesso

SpecExtract == InitExtract /\ [][NextExtract]_vars

----------------------------------------------------------------------------
(* The claims *)

\* C1: a load call that met the not-found outcome (the "Processo nao
\* encontrado" marker or an empty descricao-procedencia) ends at that
\* attempt: driver.get was issued once more than the transient failures
\* before it and no wait followed it; on a page that is not found from the
\* first attempt on, that is one attempt and no backoff wait.
C1_NotFoundEndsAtOnce ==
    /\ (pc = "load" => transients = tries)
    /\ (pc = "loaderr" /\ loadError \in NotFoundErrors =>
            tries = transients + 1 /\ Len(waits) = transients)

\* C2: a load call whose attempts all failed with a transient error made
\* exactly driver_max_retries attempts and surfaced a transient error; no
\* call makes more than driver_max_retries attempts; a call that returned
\* the document did so at its first successful attempt, the k-th, after a
\* wait for each of the k - 1 failures.
C2_RetriesUpToCeiling ==
    /\ tries <= driver_max_retries
    /\ (pc = "loaderr" =>
            /\ tries = driver_max_retries
            /\ loadError \in Errors
            /\ (transients = tries => loadError \in TransientErrors))
    /\ (pc = "found" => tries >= 1 /\ Len(waits) = tries - 1)
    /\ (pc = "load" => Len(waits) = tries)

\* witness of C2: every attempt hit a transient failure and the call gave up
C2_Witness ==
    pc = "loaderr" /\ transients = tries /\ tries = driver_max_retries

\* C3: after a load failure process_single_process returns no record,
\* nothing is written to the output for that ID, the ID ends Skipped and
\* process_batch goes on with the next ID of its list.
C3_LoadFailureSkipsId ==
    /\ [][pc = "loaderr" => pc' = "item" /\ item' = NoItem /\ file' = file]_vars
    /\ [][pc = "item" /\ item = NoItem =>
            /\ file' = file
            /\ st'[Num(Processo)] = "Skipped"
            /\ pc' = "next"
            /\ idx' = idx /\ processos' = processos]_vars
    /\ [][pc = "next" /\ idx < Len(processos) =>
            /\ idx' = idx + 1
            /\ st'[Num(processos[idx + 1])] = "Loading"
            /\ pc' = "load"]_vars

\* witness of C3: the second ID of the initial sweep is being loaded after
\* the first was skipped
C3_Witness ==
    /\ sweep = 0 /\ idx = 2 /\ pc = "load"
    /\ st[Num(processos[1])] = "Skipped"

\* C4: a per-ID pipeline run creates exactly one session, which stays the
\* only one over the retry attempts, and no session is open once
\* process_single_process has returned or raised.
C4_OneSessionAlwaysQuit ==
    /\ (pc \in {"load", "loaderr", "found"} => created = 1 /\ driverOpen = 1)
    /\ (pc \in {"item", "next", "summary", "done", "aborted"} => driverOpen = 0)
    /\ (pc \in {"item", "aborted"} => created = 1)

\* witness of C4: extract_processo raised and the session is closed
C4_Witness == pc = "aborted" /\ driverOpen = 0 /\ created = 1

\* expected - persisted: the IDs of the range with no record in the output
Gap(f) ==
    {n \in Expected :
        \A i \in 1..Len(f.rows) : Num(f.rows[i].processo_id) # n}

\* process_batch has gone through its list
BatchOver == pc = "next" /\ idx = Len(processos)

\* the case IDs process_batch was called with
Targeted == {Num(processos[i]) : i \in 1..Len(processos)}

\* C5: when the initial sweep leaves expected minus a non-empty G persisted,
\* the next sweep is run on exactly the IDs of G, each once; and when every
\* ID of that sweep was exported, the output holds every expected ID and
\* retry_missing_processes ends without another sweep.
C5_GapRepairConverges ==
    /\ [][BatchOver /\ sweep = 0 /\ Gap(file) # {} =>
            /\ sweep' = 1 /\ idx' = 0
            /\ Len(processos') = Cardinality(Gap(file))
            /\ {Num(processos'[i]) : i \in 1..Len(processos')} = Gap(file)]_vars
    /\ [][BatchOver /\ sweep = 1
             /\ (\A n \in Targeted : st[n] = "Exported") =>
            pc' = "summary" /\ Gap(file) = {}]_vars

\* C6: retry_missing_processes runs at most driver_max_retries_for_missing
\* repair sweeps, whatever the gap, and runs no sweep after a check that
\* computed an empty gap set.
C6_RepairLoopBounded ==
    /\ [](sweep <= driver_max_retries_for_missing)
    /\ [](attempt <= driver_max_retries_for_missing)
    /\ [][BatchOver /\ check_missing_processes(file) = {} =>
            pc' = "summary" /\ sweep' = sweep]_vars
    /\ [][(pc \in {"summary", "done"}) =>
            /\ sweep' = sweep
            /\ pc' = "done"]_vars

\* witness of C6: the run ended at the ceiling with IDs still missing
C6_Witness ==
    /\ pc = "done"
    /\ sweep = driver_max_retries_for_missing
    /\ Gap(file) # {}

\* C7: whatever the output holds, also when it is absent, the gap set a
\* check computes is expected minus persisted, and a non-empty gap set is
\* what the repair sweep is run on.
C7_GapIsExpectedMinusPersisted ==
    [][attempt' = attempt + 1 =>
        /\ {Num(m) : m \in missing'} = Gap(file)
        /\ (Gap(file) # {} =>
                /\ sweep' = sweep + 1
                /\ {Num(processos'[i]) : i \in 1..Len(processos')} = Gap(file))]_vars

\* C8: a run that has stopped has logged its summary, and every ID of the
\* range went through the pipeline in the initial sweep, in range order.
C8_RunCompletesRange ==
    pc \in {"done", "aborted"} =>
        /\ summary
        /\ Len(timer) >= NumProcessos
        /\ \A i \in 1..NumProcessos :
              timer[i].processo = processo_inicial + i - 1

\* C9: no extractor raises: whatever targets the page lacks, extract_processo
\* returns the record, with the absent value in the fields it could not find.
C9_ExtractorsNeverRaise ==
    [][pc = "found" => pc' = "item" /\ item' # NoItem]_vars

\* the transitions of a case ID within a sweep
Allowed ==
    {<<"Pending", "Loading">>, <<"Loading", "Found">>,
     <<"Loading", "NotFound">>, <<"Loading", "LoadFailed">>,
     <<"Found", "Extracting">>, <<"Extracting", "Exported">>,
     <<"NotFound", "Skipped">>, <<"LoadFailed", "Skipped">>}

\* C10: within a sweep a case ID only moves along the transitions of the
\* state machine, and when the sweep has stopped every ID it targeted is in
\* a terminal state, Exported or Skipped.
C10_StateMachine ==
    /\ [][sweep' = sweep =>
            \A n \in Expected :
                st'[n] = st[n] \/ <<st[n], st'[n]>> \in Allowed]_vars
    /\ [](BatchOver \/ pc \in {"summary", "done", "aborted"} =>
            \A n \in Targeted : st[n] \in Terminal)

\* the runs the ProcessTimer recorded as successful
Successful == {i \in 1..Len(timer) : timer[i].success}

\* log_summary: failed_processes
Failed == {i \in 1..Len(timer) : ~timer[i].success}

\* C11: the per-ID run that process_batch records is recorded as success
\* exactly when its export returned a file, which is exactly when the ID
\* ends Exported; a NotFound or LoadFailed run is recorded as not
\* successful; and the number of runs recorded as successful equals the
\* number of exports that returned files.
C11_SuccessIffExported ==
    /\ [][timer' # timer =>
            LET r == timer'[Len(timer')]
            IN  /\ Len(timer') = Len(timer) + 1
                /\ r.success = (Len(all_exported_files') =
                                    Len(all_exported_files) + 1)
                /\ r.success = (st'[r.processo] = "Exported")
                /\ (st[r.processo] \in {"NotFound", "LoadFailed"} =>
                        ~r.success)]_vars
    /\ [](Cardinality(Successful) = Len(all_exported_files))

\* witness of C11: a summary over a skipped run and an exported run
C11_Witness ==
    /\ pc = "done"
    /\ \E i, j \in 1..Len(timer) : timer[i].success /\ ~timer[j].success

\* the case IDs of the records the output holds, in file order
FileIds(f) == [i \in 1..Len(f.rows) |-> Num(f.rows[i].processo_id)]

\* C12: in append mode an export leaves the records of the output as they
\* were and adds the exported record after them; in overwrite mode the
\* output is cleared once, when the run starts, so that once the run has
\* exported k records the output holds exactly those k records.
C12_AppendKeepsOverwriteClearsOnce ==
    /\ [][pc = "item" /\ item # NoItem /\ ~overwrite =>
            file'.rows = Append(file.rows, Persisted(item[1]))]_vars
    /\ [](overwrite /\ all_exported_files # <<>> =>
            FileIds(file) = all_exported_files)

\* no value occurs twice in the sequence
NoDup(s) == \A i, j \in 1..Len(s) : s[i] = s[j] => i = j

\* the case IDs of the records the run itself wrote, as far as the output
\* still holds them: its last records, one per export of the run
RunRows(f) ==
    LET ids == FileIds(f)
        k == Min(Len(ids), Len(all_exported_files))
    IN  SubSeq(ids, Len(ids) - k + 1, Len(ids))

\* C13: over the initial sweep and the repair sweeps of one run no case ID
\* is exported twice, and the records the run wrote to its target hold each
\* processo_id at most once.
C13_OneRecordPerId ==
    /\ NoDup(all_exported_files)
    /\ NoDup(RunRows(file))

\* the record of an application without its extraido field
ButExtraido(r) == [r EXCEPT !.extraido = 0]

IndexNums(list) == [k \in 1..Len(list) |-> list[k].index_num]

\* C15: the index_num values of a list returned by extract_andamentos or
\* extract_deslocamentos, of length N, are the numbers 1..N, each once,
\* also when rendered items failed to extract and were left out.
C15_IndexContiguous ==
    pc = "returned" /\ call \in {"andamentos", "deslocamentos"} =>
        LET list == returned[1]
        IN  /\ {list[k].index_num : k \in 1..Len(list)} = 1..Len(list)
            /\ NoDup(IndexNums(list))

\* C16: when the N rendered andamento items all extract, the list holds N
\* entries in page order, the entry of the item at 0-based position p
\* carrying index_num N - p.
C16_NewestFirstIndex ==
    pc = "returned" /\ call = "andamentos" /\ dom.found
        /\ (\A p \in 1..Len(dom.items) : dom.items[p]) =>
        LET list == returned[1]
            N == Len(dom.items)
        IN  /\ Len(list) = N
            /\ \A k \in 1..N :
                    list[k].item = k - 1 /\ list[k].index_num = N - (k - 1)

\* witness of C16: three items, all extracted, numbered 3, 2, 1
C16_Witness ==
    /\ pc = "returned" /\ call = "andamentos"
    /\ dom = [found |-> TRUE, items |-> <<TRUE, TRUE, TRUE>>]
    /\ IndexNums(returned[1]) = <<3, 2, 1>>

\* the 0-based pairs (node 2p, node 2p + 1) whose role and name are both
\* non-blank
KeptPairs(nodes) ==
    {p \in 0..((Len(nodes) \div 2) - 1) :
        normalize_spaces(nodes[2 * p + 1]) # ""
            /\ normalize_spaces(nodes[2 * p + 2]) # ""}

\* C17: the parties are the pairs (node 2p, node 2p + 1) in page order, role
\* first, numbered from 1; there are at most floor(n / 2) of them; and with
\* an odd number of nodes the result is that of the nodes without the last.
C17_PartesPairedPositionally ==
    pc = "returned" /\ call = "partes" /\ dom.found =>
        LET partes == returned[1]
            n == Len(dom.nodes)
            kept == KeptPairs(dom.nodes)
        IN  /\ Len(partes) <= n \div 2
            /\ Len(partes) = Cardinality(kept)
            /\ \A k \in 1..Len(partes) :
                    \E p \in kept :
                        /\ Cardinality({q \in kept : q < p}) = k - 1
                        /\ partes[k].index = k
                        /\ partes[k].tipo = normalize_spaces(dom.nodes[2 * p + 1])
                        /\ partes[k].nome = normalize_spaces(dom.nodes[2 * p + 2])
            /\ (n % 2 = 1 =>
                    partes = extract_partes_from_soup(SubSeq(dom.nodes, 1, n - 1)))

\* witness of C17: three nodes, the role and name of one party and an
\* unpaired node after them
C17_Witness ==
    /\ pc = "returned" /\ call = "partes"
    /\ dom = [found |-> TRUE, nodes |-> <<"RECTE", " JOAO  SILVA ", "RECTE">>]
    /\ returned[1] = <<[index |-> 1, tipo |-> "RECTE", nome |-> "JOAO SILVA"]>>

C19_CounterIntOrNone ==
    pc = "returned" /\ call \in Counters =>
        LET value == returned[1]
        IN  /\ value.t \in {"int", "None"}
            /\ (value.t = "int") = (dom.numero /\ IsDigit(Strip(dom.text)))

\* C20: at most one browser session is open at any moment of a run, and a
\* session is opened only when none is open, process_batch is between two
\* IDs, and the ID before it in the sweep has been exported or skipped and
\* recorded by the timer.
C20_StrictlySequential ==
    /\ [](driverOpen <= 1)
    /\ [][driverOpen' > driverOpen =>
            /\ driverOpen = 0
            /\ pc = "next"
            /\ item = NoItem
            /\ (idx > 0 =>
                    /\ st[Num(processos[idx])] \in Terminal
                    /\ timer[Len(timer)].processo = Num(processos[idx]))]_vars

\* witness of C20: the second ID of the initial sweep holds the only open
\* session after the first was exported
C20_Witness ==
    /\ sweep = 0 /\ idx = 2 /\ pc = "load"
    /\ driverOpen = 1
    /\ st[Num(processos[1])] = "Exported"

\* C21: a load that ended in a not-found outcome (the "Processo nao
\* encontrado" marker or an empty descricao-procedencia) is reported at
\* info level, and an error-level record about an ID's load is emitted only
\* when the load ended in a transient failure.
C21_NotFoundLoggedAsInfo ==
    pc = "item" =>
        /\ (st[Num(Processo)] = "NotFound" => logged = "INFO")
        /\ (logged = "ERROR" => st[Num(Processo)] = "LoadFailed")

\* an optional field: None, or a string that is not empty
Optional(v) == v = NoneValue \/ (v.t = "str" /\ v.s # <<>>)

\* C22: every optional field an extractor returns is None or a non-empty
\* string: origem, the complemento, julgador, link_descricao and link of an
\* andamento, and the guia, persons and dates of a deslocamento.
C22_OptionalNoneOrNonEmpty ==
    pc = "returned" =>
        /\ (call = "origem" => Optional(returned[1]))
        /\ (call = "andamento" =>
                \A f \in {"complemento", "julgador", "link_descricao", "link"} :
                    Optional(returned[1][f]))
        /\ (call = "deslocamento" =>
                \A f \in {"guia", "recebido_por", "data_recebido",
                          "enviado_por", "data_enviado"} :
                    Optional(returned[1][f]))

\* C23: a case ID whose load ended in the not-found outcome in one sweep is
\* in the list of no later sweep of the run.
C23_NotFoundNotRetargeted ==
    \A n \in Expected : \A k \in 0..driver_max_retries_for_missing :
        [](st[n] = "NotFound" /\ sweep = k =>
                [](sweep > k => n \notin Targeted))

\* x clamped into [lo, hi]
Clamp(x, lo, hi) == IF x < lo THEN lo ELSE IF x > hi THEN hi ELSE x

C25_NoFileNoRepair ==
    /\ [][BatchOver /\ RetryRange(attempt) /\ ~file.exists =>
            /\ Gap(file) = Expected
            /\ missing' = {}
            /\ pc' = "summary"
            /\ sweep' = sweep /\ processos' = processos]_vars
    /\ [](~file.exists => sweep = 0)

\* witness of C25: the initial sweep skipped every ID, no file was left by an
\* earlier run, and the run went to its summary after one gap check
C25_Witness ==
    /\ pc = "summary"
    /\ ~file.exists
    /\ attempt = 1 /\ sweep = 0
    /\ Len(timer) = NumProcessos
    /\ \A n \in Expected : st[n] = "Skipped"

HasEmDate(s) == \E i \in 1..(Len(s) - 1) : s[i] = "em" /\ IsDate(s[i + 1])

\* a person field that still carries its "Recebido por" / "Enviado por"
\* prefix or a trailing "em DD/MM/YYYY"
Boilerplate(p, first) ==
    \/ Len(p) >= 2 /\ p[1] = first /\ p[2] = "por"
    \/ Len(p) >= 2 /\ p[Len(p) - 1] = "em" /\ IsDate(p[Len(p)])

\* the date of a transfer: of the date span when the item has one, whatever
\* the label holds; else the date after "em" in the label, if there is one
DateOf(span, label, data) ==
    IF span # NoneValue
    THEN /\ data.t = "str"
         /\ data.s = SelectSeq(span.s, IsDate)
    ELSE IF label # NoneValue /\ HasEmDate(label.s)
    THEN data = StrValue(<<LabelDate>>)
    ELSE data = NoneValue

\* C27: data_recebido is the cleaned date of the success-coloured span when
\* the item has one, and else the date after "em" in the label the receiver
\* is read from; likewise data_enviado with the info-coloured span and the
\* label of the sender; and recebido_por and enviado_por carry neither the
\* "Recebido por" / "Enviado por" prefix nor the trailing "em DD/MM/YYYY".
C27_DateFallbackOnlyWhenAbsent ==
    pc = "returned" /\ call = "deslocamento" =>
        LET r == returned[1] IN
        /\ DateOf(dom.success, dom.bold, r.data_recebido)
        /\ (dom.detalhes # NoneValue =>
                DateOf(dom.info, dom.detalhes, r.data_enviado))
        /\ (dom.bold # NoneValue => ~Boilerplate(r.recebido_por.s, "Recebido"))
        /\ (dom.detalhes # NoneValue =>
                ~Boilerplate(r.enviado_por.s, "Enviado"))

\* a badge that names the physical / the electronic medium
IsMeio(badge) == Contains(badge, "Fi'sico") \/ Contains(badge, "Eletro^nico")

\* a badge that reads sealed / public, in any case, with or without accent
IsSigiloso(badge) == Contains(UpperAll(badge), "SIGILOSO")
IsPublico(badge) ==
    Contains(UpperAll(badge), "PU'BLICO") \/ Contains(UpperAll(badge), "PUBLICO")

\* C28: meio is the value of the first badge in page order that names a
\* medium, and None when no badge does; publicidade is SIGILOSO when some
\* badge reads sealed, in whatever position, PUBLICO when none does and some
\* badge reads public, and None when neither; so a badge outside the
\* vocabulary changes no result.
C28_BadgeClassification ==
    pc = "returned" =>
        /\ (call = "meio" =>
                IF \E i \in 1..Len(dom) : IsMeio(dom[i])
                THEN LET i == CHOOSE i \in 1..Len(dom) :
                                /\ IsMeio(dom[i])
                                /\ \A j \in 1..(i - 1) : ~IsMeio(dom[j])
                     IN  returned[1] = IF Contains(dom[i], "Fi'sico")
                                       THEN "FISICO" ELSE "ELETRONICO"
                ELSE returned[1] = None)
        /\ (call = "publicidade" =>
                returned[1] =
                    IF \E i \in 1..Len(dom) : IsSigiloso(dom[i]) THEN "SIGILOSO"
                    ELSE IF \E i \in 1..Len(dom) : IsPublico(dom[i])
                    THEN "PUBLICO"
                    ELSE None)

\* C29: the timer changes only as process_batch ends the per-ID run of an
\* ID, by one entry for that ID put after the others, and a gap check leaves
\* it alone; so between two IDs of a sweep its last entries are those of the
\* IDs the sweep has gone through, in that order, after the entries of the
\* sweeps before, and the initial sweep leaves one entry per ID; and once the
\* summary is logged, its Successful and Failed counts add up to the number
\* of entries.
C29_OneTimerEntryPerRun ==
    /\ [][timer' # timer =>
            /\ pc = "item" /\ pc' = "next"
            /\ Len(timer') = Len(timer) + 1
            /\ SubSeq(timer', 1, Len(timer)) = timer
            /\ timer'[Len(timer')].processo = Num(Processo)]_vars
    /\ [](pc = "next" =>
            /\ Len(timer) >= idx
            /\ (sweep = 0 => Len(timer) = idx)
            /\ (sweep > 0 => Len(timer) >= NumProcessos + sweep - 1 + idx)
            /\ \A i \in 1..idx :
                timer[Len(timer) - idx + i].processo = Num(processos[i]))
    /\ [](summary =>
            Cardinality(Successful) + Cardinality(Failed) = Len(timer))

\* witness of C29: the summary is logged after a repair sweep went through
\* an ID the initial sweep had skipped, which has two entries
C29_Witness ==
    /\ summary
    /\ sweep = 1
    /\ Len(timer) = NumProcessos + 1
    /\ Failed # {}
    /\ timer[1].processo = timer[Len(timer)].processo

\* C30: the index values of the list extract_partes returns are 1..len in
\* list order; the party read from a pair of the page has as index one more
\* than the number of pairs kept before it, whatever the number of pairs
\* skipped before it for a blank role or name.
C30_PartesIndexAmongKept ==
    pc = "returned" /\ call = "partes" =>
        LET partes == returned[1]
            kept == IF dom.found THEN KeptPairs(dom.nodes) ELSE {}
        IN  /\ \A k \in 1..Len(partes) : partes[k].index = k
            /\ Len(partes) = Cardinality(kept)
            /\ \A p \in kept :
                LET k == Cardinality({q \in kept : q < p}) + 1
                IN  /\ partes[k].index = k
                    /\ partes[k].tipo = normalize_spaces(dom.nodes[2 * p + 1])
                    /\ partes[k].nome = normalize_spaces(dom.nodes[2 * p + 2])

\* witness of C30: the first pair of the page has a blank role and is
\* skipped; the party of the second pair has index 1
C30_Witness ==
    /\ pc = "returned" /\ call = "partes"
    /\ dom = [found |-> TRUE,
              nodes |-> <<"  ", " JOAO  SILVA ", "RECTE", " JOAO  SILVA ">>]
    /\ returned[1] = <<[index |-> 1, tipo |-> "RECTE", nome |-> "JOAO SILVA"]>>

====
